---- MODULE Spec2Model ----
(***************************************************************************)
(* A model of the search_server MCP gateway (src/src/search_server):      *)
(* the note map, the four tools of handle_call_tool, the resource          *)
(* handlers, and the provider adapters (SearchEngine, WebScraper,          *)
(* KnowledgeBase) with the outcomes of their outbound HTTP calls (Spec);   *)
(* the import of server.py and the two restart loops around a server run   *)
(* (ProcessSpec, FairProcessSpec); and add-note invocations of several     *)
(* sessions that overlap at their await (SessionsSpec).                    *)
(*                                                                         *)
(* Python values are tagged records.  A Python string is a sequence of     *)
(* atoms (TLA+ strings the code never splits; "/" is an atom of its own),  *)
(* so that concatenation, f-strings and lstrip are computed.               *)
(***************************************************************************)
EXTENDS Integers, Sequences, FiniteSets, TLC

VARIABLES
  notes,     \* server.py:26  the note map, name -> content
  req,       \* the invocation the last handler run served
  res,       \* what that run ended with: a returned value or a raised exception
  calls,     \* the outbound HTTP calls that run made, in order
  notif,     \* the number of session notifications that run sent
  written,   \* history: name -> content of the last accepted add-note for that name
  env,       \* the process environment os.getenv reads: variable -> Unset, "" or a value
  pc,        \* where the process is: start, run, inner_sleep, outer_sleep, exit
  exit_status, \* how the process ended: the value run_with_retries returned or the exception raised
  retry_count,        \* server.py:377
  retry_delay,        \* server.py:379
  outer_retry_count,  \* server.py:421
  outer_retry_delay,  \* server.py:423
  printed,   \* the notifications retry_runner has printed, in order
  slept,     \* history: the delays slept so far, in order
  runs,      \* history: the number of server runs started
  sessions   \* the add-note invocation each session has in flight

\* the state of the handlers, of the process around them, and of the sessions
serving == <<notes, req, res, calls, notif, written>>
process == <<env, pc, exit_status, retry_count, retry_delay, outer_retry_count, outer_retry_delay,
             printed, slept, runs>>
vars == <<serving, process, sessions>>

----------------------------------------------------------------------------
(* Python values *)

PyNone == [t |-> "none"]
PyStr(s) == [t |-> "str", s |-> s]
PyNum(n) == [t |-> "num", n |-> n]
PyFloat(tenths) == [t |-> "float", tenths |-> tenths]
PyList(l) == [t |-> "list", l |-> l]
PyDict(d) == [t |-> "dict", d |-> d]
\* a response body that is not JSON
NotJson == [t |-> "invalid"]

\* a one-atom string
S(atom) == PyStr(<<atom>>)
EmptyStr == PyStr(<<>>)
EmptyDict == PyDict([k \in {} |-> PyNone])

\* the outcome of evaluating an expression or running a function
Ok(v) == [kind |-> "ok", value |-> v]
Raise(e, m) == [kind |-> "exc", exc |-> e, msg |-> m]

\* Python truthiness, as `not x` uses it
TruthyEmptyString(v) == v.t # "none"
Truthy(v) ==
  CASE v.t = "none" -> FALSE
    [] v.t = "str" -> Len(v.s) > 0
    [] v.t = "num" -> v.n # 0
    [] v.t = "float" -> v.tenths # 0
    [] v.t = "list" -> Len(v.l) > 0
    [] v.t = "dict" -> DOMAIN v.d # {}

\* d.get(k, default) on a value known to be a dict
Get(d, k, default) == IF k \in DOMAIN d.d THEN d.d[k] ELSE default

\* v.get(k, default) on any value: only a dict has .get
DictGet(v, k, default) ==
  IF v.t = "dict" THEN Ok(Get(v, k, default))
  ELSE Raise("AttributeError", <<"object has no attribute 'get'">>)

\* for x in v: the sequence iterated, or TypeError (a dict iterates its keys)
RECURSIVE SetToSeq(_)
SetToSeq(A) ==
  IF A = {} THEN <<>>
  ELSE LET x == CHOOSE y \in A : TRUE IN <<x>> \o SetToSeq(A \ {x})

Iterate(v) ==
  CASE v.t = "list" -> Ok(v.l)
    [] v.t = "dict" -> Ok([i \in 1..Cardinality(DOMAIN v.d) |-> S(SetToSeq(DOMAIN v.d)[i])])
    [] v.t \in {"none", "num", "float"} -> Raise("TypeError", <<"object is not iterable">>)

\* str(v)
PyStrOf(v) ==
  CASE v.t = "none" -> <<"None">>
    [] v.t = "str" -> v.s
    [] v.t = "num" -> <<ToString(v.n)>>
    [] v.t = "float" -> <<ToString(v.tenths \div 10), ".", ToString(v.tenths % 10)>>
    [] v.t = "list" -> <<"[...]">>
    [] v.t = "dict" -> <<"{...}">>

\* float(v): ValueError on a non-numeric string, TypeError on None, list, dict
\* (the strings of the bounded inputs are non-numeric)
PyFloatOf(v) ==
  CASE v.t = "num" -> Ok(PyFloat(10 * v.n))
    [] v.t = "float" -> Ok(v)
    [] v.t = "str" -> Raise("ValueError", <<"could not convert string to float">>)
    [] v.t \in {"none", "list", "dict"} -> Raise("TypeError", <<"float() argument must be a string or a number">>)

\* s.lstrip("/")
RECURSIVE LStripSlash(_)
LStripSlash(s) ==
  IF s # <<>> /\ Head(s) = "/" THEN LStripSlash(Tail(s)) ELSE s

\* sub in text
Contains(text, sub) ==
  \E i \in 1..(Len(text) - Len(sub) + 1) : SubSeq(text, i, i + Len(sub) - 1) = sub

\* the requests exception hierarchy: what `except requests.RequestException`
\* catches (the JSONDecodeError of response.json() is one, as of requests 2.27)
IsRequestException(e) == e \in {"ConnectionError", "Timeout", "HTTPError", "JSONDecodeError"}
IsTimeout(e) == e = "Timeout"

----------------------------------------------------------------------------
(* Outbound HTTP: what one provider call can end with *)

HttpExc(e) == [kind |-> "exc", exc |-> e, msg |-> <<e, ": transport failure">>]
HttpResp(status, text, json) == [kind |-> "resp", status |-> status, text |-> text, json |-> json]
\* stands for "no call is made" when a handler is asked which calls it makes
NoHttp == HttpExc("ConnectionError")

\* requests.get/post(...); response.raise_for_status(); response.json()
FetchJson(http) ==
  IF http.kind = "exc" THEN Raise(http.exc, http.msg)
  ELSE IF http.status >= 400 THEN Raise("HTTPError", <<ToString(http.status), " Error">>)
  ELSE IF http.json.t = "invalid" THEN Raise("JSONDecodeError", <<"Expecting value">>)
  ELSE Ok(http.json)

\* requests.get(...); response.raise_for_status(); response.text
FetchText(http) ==
  IF http.kind = "exc" THEN Raise(http.exc, http.msg)
  ELSE IF http.status >= 400 THEN Raise("HTTPError", <<ToString(http.status), " Error">>)
  ELSE Ok(http.text)

----------------------------------------------------------------------------
(* SearchEngine: six web adapters and the dispatch over the engine name *)

\* what an adapter call ends with, and the outbound calls it made
Ran(out, made) == [out |-> out, calls |-> made]
Call(method, endpoint) == [method |-> method, endpoint |-> endpoint]

\* the canonical record every web adapter appends for one upstream item
WebRecord(label, text, url) ==
  PyDict([file_name |-> S(label), chunk_text |-> text, distance |-> PyFloat(9),
          search_type |-> S("web"), url |-> url])

\* one turn of the loop: an item that is not a dict raises at result.get
WebRecordsStep(text, url, rest, label) ==
  IF text.kind = "exc" THEN text
  ELSE IF url.kind = "exc" THEN url
  ELSE IF rest.kind = "exc" THEN rest
  ELSE Ok(<<WebRecord(label, text.value, url.value)>> \o rest.value)

\* for result in <items>: results.append({... result.get(textKey) ... result.get(urlKey)})
RECURSIVE WebRecords(_, _, _, _)
WebRecords(items, label, textKey, urlKey) ==
  IF items = <<>> THEN Ok(<<>>)
  ELSE WebRecordsStep(DictGet(Head(items), textKey, PyNone),
                      DictGet(Head(items), urlKey, PyNone),
                      WebRecords(Tail(items), label, textKey, urlKey), label)

\* search_results.get(k1, {}).get(k2, []): the lookup of the item list along
\* the engine's path of keys
LookupInner(inner, rest) ==
  IF inner.kind = "exc" THEN inner ELSE DictGet(inner.value, rest, PyList(<<>>))
LookupItems(v, path) ==
  IF Len(path) = 1 THEN DictGet(v, path[1], PyList(<<>>))
  ELSE LookupInner(DictGet(v, path[1], EmptyDict), path[2])

\* except requests.exceptions.RequestException as e: return []
AbsorbRequestException(out) ==
  IF out.kind = "exc" /\ IsRequestException(out.exc) THEN Ok(<<>>) ELSE out

\* the loop over the items looked up
WebLoop(raw, label, textKey, urlKey) ==
  IF raw.kind = "exc" THEN raw
  ELSE IF Iterate(raw.value).kind = "exc" THEN Iterate(raw.value)
  ELSE WebRecords(Iterate(raw.value).value, label, textKey, urlKey)

WebParsed(body, path, label, textKey, urlKey) ==
  IF body.kind = "exc" THEN body
  ELSE WebLoop(LookupItems(body.value, path), label, textKey, urlKey)

\* the body of every search_<engine>: try: request, raise_for_status, json, loop;
\* except requests.exceptions.RequestException: return []
WebAdapter(http, path, label, textKey, urlKey) ==
  AbsorbRequestException(WebParsed(FetchJson(http), path, label, textKey, urlKey))

search_tavily(query, http) ==
  Ran(WebAdapter(http, <<"results">>, "Tavily", "content", "url"),
      <<Call("POST", "https://api.tavily.com/search")>>)

search_serper(query, http) ==
  Ran(WebAdapter(http, <<"organic">>, "Serper", "snippet", "link"),
      <<Call("POST", "https://google.serper.dev/search")>>)

search_bing(query, http) ==
  Ran(WebAdapter(http, <<"webPages", "value">>, "Bing", "snippet", "displayUrl"),
      <<Call("GET", "https://api.bing.microsoft.com/v7.0/search")>>)

search_google(query, http) ==
  Ran(WebAdapter(http, <<"items">>, "Google", "snippet", "link"),
      <<Call("GET", "https://www.googleapis.com/customsearch/v1")>>)

search_linkup(query, http) ==
  Ran(WebAdapter(http, <<"results">>, "Linkup", "content", "url"),
      <<Call("GET", "https://api.linkup.so/v1/search")>>)

search_exa(query, http) ==
  Ran(WebAdapter(http, <<"results">>, "Exa", "summary", "url"),
      <<Call("POST", "https://api.exa.ai/search")>>)

\* a dispatch that sends every unrecognised engine to the first adapter
SearchEngine_search_fallthrough(engine, query, http) ==
  CASE engine = S("serper") -> search_serper(query, http)
    [] engine = S("bing") -> search_bing(query, http)
    [] engine = S("google") -> search_google(query, http)
    [] engine = S("linkup") -> search_linkup(query, http)
    [] engine = S("exa") -> search_exa(query, http)
    [] OTHER -> search_tavily(query, http)

SearchEngine_search(engine, query, http) ==
  CASE engine = S("tavily") -> search_tavily(query, http)
    [] engine = S("serper") -> search_serper(query, http)
    [] engine = S("bing") -> search_bing(query, http)
    [] engine = S("google") -> search_google(query, http)
    [] engine = S("linkup") -> search_linkup(query, http)
    [] engine = S("exa") -> search_exa(query, http)
    [] OTHER -> Ran(Ok(<<>>), <<>>)

----------------------------------------------------------------------------
(* KnowledgeBase *)

\* raw_results[:5]
KbLimit == 5

Take(s, n) == SubSeq(s, 1, IF Len(s) < n THEN Len(s) ELSE n)

Normalized(item, distance, relevance) ==
  IF distance.kind = "exc" THEN distance
  ELSE IF relevance.kind = "exc" THEN relevance
  ELSE Ok(PyDict([file_name |-> PyStr(PyStrOf(Get(item, "file_name", S("Unknown")))),
                  chunk_text |-> PyStr(PyStrOf(Get(item, "chunk_text", EmptyStr))),
                  distance |-> distance.value,
                  search_type |-> PyStr(PyStrOf(Get(item, "search_type", S("vector")))),
                  relevance_score |-> relevance.value]))

\* a normalisation that hands the upstream item on as it came
normalize_result_passthrough(item) == Ok(item)

normalize_result(item) ==
  Normalized(item, PyFloatOf(Get(item, "distance", PyFloat(0))),
                   PyFloatOf(Get(item, "relevance_score", PyFloat(0))))

\* the loop over raw_results[:5]: a non-dict item is passed over, an item whose
\* normalisation raises ValueError or TypeError is logged and passed over
KeepNormalized(n) == IF n.kind = "ok" THEN <<n.value>> ELSE <<>>
RECURSIVE NormalizeAll(_)
NormalizeAll(items) ==
  IF items = <<>> THEN <<>>
  ELSE KeepNormalized(IF Head(items).t = "dict" THEN normalize_result(Head(items))
                      ELSE Raise("TypeError", <<"not a dict">>))
       \o NormalizeAll(Tail(items))

KbResults(l) == PyDict([results |-> PyList(l)])

\* the try body after response.json()
KbParsed(raw) ==
  IF raw.kind = "exc"
  THEN (IF IsTimeout(raw.exc) THEN Ok(KbResults(<<>>))
        ELSE IF IsRequestException(raw.exc) THEN Ok(KbResults(<<>>))
        ELSE raw)
  ELSE IF raw.value.t # "list" THEN Ok(KbResults(<<>>))
  ELSE Ok(KbResults(NormalizeAll(Take(raw.value.l, KbLimit))))

KbLookup(body) ==
  IF body.kind = "exc" THEN body ELSE DictGet(body.value, "results", PyList(<<>>))

\* session.post(query_url, json=payload, timeout=30): one logical call (the
\* session's transport-level Retry is inside it)
KnowledgeBase_search(query, http) ==
  Ran(KbParsed(KbLookup(FetchJson(http))), <<Call("POST", "KNOWLEDGE_BASE_URL/query")>>)

----------------------------------------------------------------------------
(* WebScraper *)

\* a scraper that fills both keys on failure
ScrapeRecordBothKeys(url, text) ==
  IF text.kind = "ok"
  THEN Ok(PyDict([url |-> url, content |-> PyStr(text.value), status |-> S("success")]))
  ELSE Ok(PyDict([url |-> url, content |-> PyNone, error |-> PyStr(text.msg), status |-> S("failed")]))

\* the record built on success, and in the except RequestException clause
ScrapeRecord(url, text) ==
  IF text.kind = "ok"
  THEN Ok(PyDict([url |-> url, content |-> PyStr(text.value), status |-> S("success")]))
  ELSE IF IsRequestException(text.exc)
  THEN Ok(PyDict([url |-> url, error |-> PyStr(text.msg), status |-> S("failed")]))
  ELSE text

scrape_url(url, http) ==
  Ran(ScrapeRecord(url, FetchText(http)), <<Call("GET", <<"https://r.jina.ai/">> \o PyStrOf(url))>>)

----------------------------------------------------------------------------
(* server.py: the tool gateway *)

TextContent(text) == [type |-> "text", text |-> text]

\* what one handler run does: how it ends, the note map it leaves, the outbound
\* calls it made and the notifications it sent
Effect(out, nts, made, sent) == [out |-> out, notes |-> nts, calls |-> made, notif |-> sent]

\* the end of the knowledge-search branch, handing back an empty list when nothing was formatted
KnowledgeBlocksUnguarded(formatted) == formatted

\* if formatted_results: return formatted_results; else the single "No results" block
KnowledgeBlocks(formatted) ==
  IF formatted # <<>> THEN formatted
  ELSE <<TextContent(<<"No results found in knowledge base">>)>>

KnowledgeBlock(item) ==
  TextContent(<<"Source: ">> \o PyStrOf(Get(item, "file_name", S("Unknown")))
           \o <<"\nContent: ">> \o PyStrOf(Get(item, "chunk_text", EmptyStr))
           \o <<"\nDistance: ">> \o PyStrOf(Get(item, "distance", S("N/A")))
           \o <<"\nSearch Type: ">> \o PyStrOf(Get(item, "search_type", S("N/A")))
           \o <<"\nRelevance: ">> \o PyStrOf(Get(item, "relevance_score", S("N/A")))
           \o <<"\n">>)

\* for item in results: a non-dict item is passed over
RECURSIVE FormatKnowledge(_)
FormatKnowledge(items) ==
  IF items = <<>> THEN <<>>
  ELSE (IF Head(items).t = "dict" THEN <<KnowledgeBlock(Head(items))>> ELSE <<>>)
       \o FormatKnowledge(Tail(items))

\* from `results = result.get("results", [])` on
knowledge_search_results(results, made, nts) ==
  IF results.t # "list"
  THEN Effect(Ok(<<TextContent(<<"Invalid results format from knowledge base">>)>>), nts, made, 0)
  ELSE Effect(Ok(KnowledgeBlocks(FormatKnowledge(results.l))), nts, made, 0)

\* the inner try around knowledge_base.search(query): any exception becomes a block
knowledge_search_ran(ran, nts) ==
  IF ran.out.kind = "exc"
  THEN Effect(Ok(<<TextContent(<<"Search failed: ">> \o ran.out.msg)>>), nts, ran.calls, 0)
  ELSE IF ran.out.value.t # "dict"
  THEN Effect(Ok(<<TextContent(<<"Invalid response from knowledge base">>)>>), nts, ran.calls, 0)
  ELSE knowledge_search_results(Get(ran.out.value, "results", PyList(<<>>)), ran.calls, nts)

knowledge_search_query(query, nts, http) ==
  IF ~Truthy(query)
  THEN Effect(Ok(<<TextContent(<<"Missing query parameter">>)>>), nts, <<>>, 0)
  ELSE knowledge_search_ran(KnowledgeBase_search(query, http), nts)

knowledge_search_branch(arguments, nts, http) ==
  knowledge_search_query(Get(arguments, "query", PyNone), nts, http)

\* after `result = web_scraper.scrape_url(url)` and the notification
scrape_url_ran(url, ran, nts) ==
  IF ran.out.kind = "exc"
  THEN Effect(ran.out, nts, ran.calls, 0)
  ELSE IF ~Truthy(ran.out.value)
  THEN Effect(Ok(<<TextContent(<<"Failed to scrape ">> \o PyStrOf(url) \o <<": Unknown error">>)>>),
              nts, ran.calls, 1)
  ELSE IF Get(ran.out.value, "status", PyNone) = S("success")
  THEN Effect(Ok(<<TextContent(<<"Successfully scraped content from ">> \o PyStrOf(url)
                               \o <<":\n\n">> \o PyStrOf(Get(ran.out.value, "content", EmptyStr)))>>),
              nts, ran.calls, 1)
  ELSE Effect(Ok(<<TextContent(<<"Failed to scrape ">> \o PyStrOf(url) \o <<": ">>
                               \o PyStrOf(Get(ran.out.value, "error", S("Unknown error"))))>>),
              nts, ran.calls, 1)

scrape_url_with(url, nts, http) ==
  IF ~Truthy(url)
  THEN Effect(Raise("ValueError", <<"Missing URL">>), nts, <<>>, 0)
  ELSE scrape_url_ran(url, scrape_url(url, http), nts)

scrape_url_branch(arguments, nts, http) ==
  scrape_url_with(Get(arguments, "url", PyNone), nts, http)

\* a store that keeps the written note alone
StoreAlone(nts, name, content) == [n \in {name} |-> content]

\* notes[note_name] = content
Store(nts, name, content) ==
  [n \in DOMAIN nts \cup {name} |-> IF n = name THEN content ELSE nts[n]]

add_note_with(note_name, content, nts) ==
  IF ~Truthy(note_name) \/ ~Truthy(content)
  THEN Effect(Raise("ValueError", <<"Missing name or content">>), nts, <<>>, 0)
  ELSE Effect(Ok(<<TextContent(<<"Added note '">> \o PyStrOf(note_name)
                               \o <<"' with content: ">> \o PyStrOf(content))>>),
              Store(nts, note_name.s, content.s), <<>>, 1)

add_note_branch(arguments, nts) ==
  add_note_with(Get(arguments, "name", PyNone), Get(arguments, "content", PyNone), nts)

\* a block that leaves the URL line out
SearchBlockNoUrl(result) ==
  TextContent(<<"Source: ">> \o PyStrOf(result.d["file_name"])
           \o <<"\nContent: ">> \o PyStrOf(result.d["chunk_text"]) \o <<"\n">>)

\* f"Source: {result['file_name']}\nURL: {result['url']}\nContent: {result['chunk_text']}\n"
SearchBlock(result) ==
  TextContent(<<"Source: ">> \o PyStrOf(result.d["file_name"])
           \o <<"\nURL: ">> \o PyStrOf(result.d["url"])
           \o <<"\nContent: ">> \o PyStrOf(result.d["chunk_text"]) \o <<"\n">>)

\* a search branch that keeps a note of the search it ran
search_ran_noting(ran, nts) ==
  Effect(Ok(<<>>), Store(nts, <<"last search">>, <<"done">>), ran.calls, 1)

\* after `results = search_engine.search(engine, query)`
search_ran(ran, nts) ==
  IF ran.out.kind = "exc"
  THEN Effect(ran.out, nts, ran.calls, 0)
  ELSE Effect(Ok([i \in 1..Len(ran.out.value) |-> SearchBlock(ran.out.value[i])]), nts, ran.calls, 1)

search_with(engine, query, nts, http) ==
  IF ~Truthy(engine) \/ ~Truthy(query)
  THEN Effect(Raise("ValueError", <<"Missing engine or query">>), nts, <<>>, 0)
  ELSE search_ran(SearchEngine_search(engine, query, http), nts)

search_branch(arguments, nts, http) ==
  search_with(Get(arguments, "engine", PyNone), Get(arguments, "query", PyNone), nts, http)

\* a handler that answers an unknown tool name with an empty result
handle_call_tool_ignoring_unknown(name, arguments, nts, http) ==
  IF ~Truthy(arguments)
  THEN Effect(Raise("ValueError", <<"Missing arguments">>), nts, <<>>, 0)
  ELSE CASE name = "knowledge-search" -> knowledge_search_branch(arguments, nts, http)
         [] name = "scrape-url" -> scrape_url_branch(arguments, nts, http)
         [] name = "add-note" -> add_note_branch(arguments, nts)
         [] name = "search" -> search_branch(arguments, nts, http)
         [] OTHER -> Effect(Ok(<<>>), nts, <<>>, 0)

\* name is the tool name (an atom), arguments a dict or None; the outer
\* try/except logs and re-raises, so an exception of a branch is the handler's
handle_call_tool(name, arguments, nts, http) ==
  IF ~Truthy(arguments)
  THEN Effect(Raise("ValueError", <<"Missing arguments">>), nts, <<>>, 0)
  ELSE CASE name = "knowledge-search" -> knowledge_search_branch(arguments, nts, http)
         [] name = "scrape-url" -> scrape_url_branch(arguments, nts, http)
         [] name = "add-note" -> add_note_branch(arguments, nts)
         [] name = "search" -> search_branch(arguments, nts, http)
         [] OTHER -> Effect(Raise("ValueError", <<"Unknown tool: ", name>>), nts, <<>>, 0)

\* AnyUrl(f"note://internal/{name}"): the URI of a note, as pydantic parses it
NoteUri(name) == [scheme |-> "note", host |-> "internal", path |-> PyStr(<<"/">> \o name)]

Resource(name) ==
  [uri |-> NoteUri(name), name |-> <<"Note: ">> \o name,
   description |-> <<"A simple note named ">> \o name, mimeType |-> "text/plain"]

\* one Resource per key of notes (the listing's order, the dict's insertion
\* order, is not kept: the result is the set of the resources listed)
handle_list_resources(nts) == Ok({Resource(n) : n \in DOMAIN nts})

handle_list_tools == Ok(<<"add-note", "search", "scrape-url", "knowledge-search">>)

handle_read_resource(uri, nts) ==
  IF uri.scheme # "note"
  THEN Raise("ValueError", <<"Unsupported URI scheme: ", uri.scheme>>)
  ELSE IF uri.path.t = "none"
  THEN Raise("ValueError", <<"Note not found: ", "None">>)
  ELSE IF LStripSlash(uri.path.s) \notin DOMAIN nts
  THEN Raise("ValueError", <<"Note not found: ">> \o LStripSlash(uri.path.s))
  ELSE Ok(nts[LStripSlash(uri.path.s)])

----------------------------------------------------------------------------
(* The bounded inputs: invocations and provider answers *)

\* the longest item list a provider answers with (longer knowledge-base lists
\* are the LongKbLists)
MaxItems == 2

Absent == [t |-> "absent"]

\* the dict {k1: v1, k2: v2}, a key left out when its value is Absent
Dict2(k1, v1, k2, v2) ==
  PyDict([k \in (IF v1 = Absent THEN {} ELSE {k1}) \cup (IF v2 = Absent THEN {} ELSE {k2})
            |-> IF k = k1 THEN v1 ELSE v2])
Dict1(k1, v1) == Dict2(k1, v1, k1, v1)

SeqsUpTo(A, n) == UNION {[1..k -> A] : k \in 0..n}

NoteNames == {<<"a">>, <<"/", "a">>, <<"b">>}
NoteContents == {<<"c1">>, <<"c2">>}
Queries == {<<"q">>}
Urls == {<<"https://example.com">>}
EngineNames == {"tavily", "serper", "bing", "google", "linkup", "exa"}
OtherEngines == {"Tavily", "duckduckgo"}
ToolNames == {"add-note", "search", "scrape-url", "knowledge-search", "invalid_tool"}

Opt(A) == {Absent, EmptyStr} \cup {PyStr(s) : s \in A}

\* arguments that carry none of a tool's keys
BareArguments == {PyNone, EmptyDict, Dict1("test", S("test"))}

ArgumentsFor(name) ==
  BareArguments \cup
  CASE name = "add-note" ->
         {Dict2("name", n, "content", c) : n \in Opt(NoteNames), c \in Opt(NoteContents)}
    [] name = "search" ->
         {Dict2("engine", e, "query", q) :
            e \in Opt({<<x>> : x \in EngineNames \cup OtherEngines}), q \in Opt(Queries)}
    [] name = "scrape-url" -> {Dict1("url", u) : u \in Opt(Urls)}
    [] name = "knowledge-search" -> {Dict1("query", q) : q \in Opt(Queries)}
    [] OTHER -> {}

\* transport failures and bodies that are not JSON, for the JSON providers
FailedAnswers ==
  {HttpExc("ConnectionError"), HttpExc("Timeout"),
   HttpResp(500, <<"Internal Server Error">>, NotJson),
   HttpResp(200, <<"<html>">>, NotJson)}

JsonAnswer(json) == HttpResp(200, <<"(json)">>, json)

\* the field names of each engine's answer
TextKey(engine) ==
  CASE engine \in {"tavily", "linkup"} -> "content"
    [] engine \in {"serper", "bing", "google"} -> "snippet"
    [] engine = "exa" -> "summary"
    [] OTHER -> "content"
UrlKey(engine) ==
  CASE engine \in {"tavily", "linkup", "exa"} -> "url"
    [] engine \in {"serper", "google"} -> "link"
    [] engine = "bing" -> "displayUrl"
    [] OTHER -> "url"
\* the body that holds `items` where the engine's adapter looks for them
WebBody(engine, items) ==
  CASE engine \in {"tavily", "linkup", "exa"} -> Dict1("results", items)
    [] engine = "serper" -> Dict1("organic", items)
    [] engine = "google" -> Dict1("items", items)
    [] engine = "bing" -> Dict1("webPages", Dict1("value", items))
    [] OTHER -> Dict1("results", items)

\* upstream items: complete, without the text field, and not an object
WebItems(engine) ==
  {Dict2(TextKey(engine), c, UrlKey(engine), u) :
     <<c, u>> \in {<<S("C1"), S("U1")>>, <<S("C2"), S("U2")>>, <<Absent, S("U3")>>}}
  \cup {S("x")}

WebAnswers(engine) ==
  FailedAnswers
  \cup {JsonAnswer(PyList(<<>>)), JsonAnswer(EmptyDict), JsonAnswer(WebBody(engine, PyNone))}
  \cup {JsonAnswer(WebBody(engine, PyList(l))) : l \in SeqsUpTo(WebItems(engine), MaxItems)}

KbFull == PyDict([file_name |-> S("doc.md"), chunk_text |-> S("T"), distance |-> PyNum(1),
                  search_type |-> S("hybrid"), relevance_score |-> PyNum(2)])
KbItems ==
  {KbFull, EmptyDict,
   Dict1("distance", S("abc")),
   Dict1("relevance_score", PyNone),
   Dict2("chunk_text", S("T2"), "summary", S("SUM")),
   S("x")}
LongKbLists ==
  {[i \in 1..(KbLimit + 1) |-> IF i = bad THEN S("x") ELSE Dict1("file_name", S(ToString(i)))]
     : bad \in {0, 1, KbLimit + 1}}

KbAnswers ==
  FailedAnswers
  \cup {JsonAnswer(PyList(<<>>)), JsonAnswer(EmptyDict), JsonAnswer(Dict1("results", PyNone)),
        JsonAnswer(Dict2("results", PyList(<<KbFull>>), "summary", S("SUM")))}
  \cup {JsonAnswer(Dict1("results", PyList(l))) : l \in SeqsUpTo(KbItems, MaxItems) \cup LongKbLists}

ScrapeAnswers ==
  {HttpExc("ConnectionError"), HttpExc("Timeout"),
   HttpResp(404, <<"Not Found">>, NotJson),
   HttpResp(200, <<"<html>", "body", "</html>">>, NotJson),
   HttpResp(200, <<>>, NotJson)}

AnswersFor(name, arguments) ==
  CASE name = "search" -> WebAnswers(Head(arguments.d["engine"].s))
    [] name = "scrape-url" -> ScrapeAnswers
    [] name = "knowledge-search" -> KbAnswers

\* the answers to draw from: one placeholder when the run makes no outbound call
HttpFor(name, arguments, nts) ==
  IF handle_call_tool(name, arguments, nts, NoHttp).calls = <<>> THEN {NoHttp}
  ELSE AnswersFor(name, arguments)

Uris ==
  {[scheme |-> s, host |-> "internal", path |-> p] :
     s \in {"note", "http"},
     p \in {PyNone} \cup {PyStr(<<"/">> \o n) : n \in NoteNames \cup {<<>>, <<"z">>}}}

\* an add-note invocation that carries a non-empty name and a non-empty content
AcceptedAdd(name, arguments) ==
  /\ name = "add-note"
  /\ arguments.t = "dict"
  /\ {"name", "content"} \subseteq DOMAIN arguments.d
  /\ arguments.d["name"].s # <<>>
  /\ arguments.d["content"].s # <<>>

----------------------------------------------------------------------------
(* The process around the handlers: the import of server.py (components,   *)
(* required variables), then main -> run_with_retries -> retry_runner ->   *)
(* run_stdio_server, the server run in which the handlers above are served *)

\* os.getenv(var) of a variable that is not in the environment
Unset == "(unset)"

\* os.getenv(var, default)
Getenv(e, var, default) == IF e[var] = Unset THEN default ELSE e[var]

required_env_vars ==
  <<"TAVILY_API_KEY", "SERPER_API_KEY", "BING_API_KEY", "GOOGLE_API_KEY",
    "GOOGLE_SEARCH_ENGINE_ID", "JINA_API_KEY", "KNOWLEDGE_BASE_URL", "LINKUP_API_KEY">>

\* every variable a component reads
EnvVars == {required_env_vars[i] : i \in 1..Len(required_env_vars)} \cup {"EXA_API_KEY"}

\* SearchEngine.__init__: never raises
SearchEngine_init(e) ==
  [tavily_api_key |-> Getenv(e, "TAVILY_API_KEY", "tavily_api_key"),
   serper_api_key |-> Getenv(e, "SERPER_API_KEY", "serper_api_key"),
   bing_api_key |-> Getenv(e, "BING_API_KEY", "bing_api_key"),
   google_api_key |-> Getenv(e, "GOOGLE_API_KEY", "google_api_key"),
   google_search_engine_id |-> Getenv(e, "GOOGLE_SEARCH_ENGINE_ID", "google_search_engine_id"),
   linkup_api_key |-> Getenv(e, "LINKUP_API_KEY", "linkup_api_key"),
   exa_api_key |-> Getenv(e, "EXA_API_KEY", "exa_api_key")]

\* WebScraper.__init__
WebScraper_init(e) ==
  IF Getenv(e, "JINA_API_KEY", "jina_api_key") = ""
  THEN Raise("ValueError", <<"JINA_API_KEY", " environment variable not set">>)
  ELSE Ok([jina_api_key |-> Getenv(e, "JINA_API_KEY", "jina_api_key")])

\* KnowledgeBase.__init__
KnowledgeBase_init(e) ==
  IF Getenv(e, "KNOWLEDGE_BASE_URL", "http://192.168.0.16:3201") = ""
  THEN Raise("ValueError", <<"KNOWLEDGE_BASE_URL", " environment variable not set">>)
  ELSE Ok([base_url |-> Getenv(e, "KNOWLEDGE_BASE_URL", "http://192.168.0.16:3201")])

\* for var in required_env_vars: if not os.getenv(var): raise ValueError(...)
RECURSIVE CheckRequired(_, _)
CheckRequired(e, i) ==
  IF i > Len(required_env_vars) THEN Ok(PyNone)
  ELSE IF e[required_env_vars[i]] \in {Unset, ""}
  THEN Raise("ValueError", <<"Missing required environment variable: ", required_env_vars[i]>>)
  ELSE CheckRequired(e, i + 1)

\* the import of server.py: the three components are built, then the required
\* variables are checked; the first exception ends the process
Import(e) ==
  IF WebScraper_init(e).kind = "exc" THEN WebScraper_init(e)
  ELSE IF KnowledgeBase_init(e).kind = "exc" THEN KnowledgeBase_init(e)
  ELSE CheckRequired(e, 1)

max_retries == 3
outer_max_retries == 3
initial_retry_delay == 1
initial_outer_retry_delay == 5
outer_retry_delay_cap == 60

\* a backoff that triples
InnerBackoffTriple(delay) == delay * 3

\* retry_delay *= 2
InnerBackoff(delay) == delay * 2
\* outer_retry_delay = min(outer_retry_delay * 2, 60)
OuterBackoff(delay) ==
  IF delay * 2 < outer_retry_delay_cap THEN delay * 2 ELSE outer_retry_delay_cap

\* the notifications retry_runner prints
Progress(count) ==
  [method |-> "notifications/progress", progress |-> count, total |-> max_retries]
MaxRetriesReached(count) ==
  [method |-> "notifications/error", message |-> "Max retries reached", retries |-> count]

Running == [kind |-> "running"]
Returned(code) == [kind |-> "returned", code |-> code]

\* the most variables an environment leaves unset or empty
MaxMissing == 2

Envs ==
  {e \in [EnvVars -> {Unset, "", "v"}] : Cardinality({v \in EnvVars : e[v] # "v"}) <= MaxMissing}

\* the process as it is while the handlers are served: everything configured,
\* the first server run under way
InServerRun ==
  /\ env = [v \in EnvVars |-> "v"]
  /\ pc = "run"
  /\ exit_status = Running
  /\ retry_count = 0
  /\ retry_delay = initial_retry_delay
  /\ outer_retry_count = 0
  /\ outer_retry_delay = initial_outer_retry_delay
  /\ printed = <<>>
  /\ slept = <<>>
  /\ runs = 1

----------------------------------------------------------------------------
(* The sessions: add-note invocations that overlap *)

\* the number of sessions with an invocation in flight at once
NumSessions == 2
Sessions == 1..NumSessions

Idle == [pc |-> "idle"]
NoSessions == sessions = [s \in Sessions |-> Idle]

----------------------------------------------------------------------------
(* The state machine: one action per protocol handler, each run whole, and   *)
(* the step in which server.run hands the run's result to the client and is *)
(* ready for the next request.  Handler runs do not overlap here, so every   *)
(* sequence of invocations is a behaviour.                                   *)

NoRequest == [op |-> "none"]

Init ==
  /\ notes = [n \in {} |-> <<>>]
  /\ req = NoRequest
  /\ res = Ok(<<>>)
  /\ calls = <<>>
  /\ notif = 0
  /\ written = [n \in {} |-> <<>>]
  /\ InServerRun
  /\ NoSessions

\* the state a handler run leaves
Ran_call_tool(name, arguments, http, e) ==
  /\ notes' = e.notes
  /\ req' = [op |-> "call_tool", name |-> name, arguments |-> arguments]
  /\ res' = e.out
  /\ calls' = [i \in 1..Len(e.calls) |-> [call |-> e.calls[i], answer |-> http]]
  /\ notif' = e.notif
  /\ written' = IF AcceptedAdd(name, arguments)
                THEN Store(written, arguments.d["name"].s, arguments.d["content"].s)
                ELSE written
  /\ UNCHANGED <<process, sessions>>

CallTool ==
  /\ req = NoRequest
  /\ \E name \in ToolNames : \E arguments \in ArgumentsFor(name) :
       \E http \in HttpFor(name, arguments, notes) :
         Ran_call_tool(name, arguments, http, handle_call_tool(name, arguments, notes, http))

ReadResource ==
  /\ req = NoRequest
  /\ \E uri \in Uris :
    /\ req' = [op |-> "read_resource", uri |-> uri]
    /\ res' = handle_read_resource(uri, notes)
    /\ calls' = <<>>
    /\ notif' = 0
    /\ UNCHANGED <<notes, written, process, sessions>>

ListResources ==
  /\ req = NoRequest
  /\ req' = [op |-> "list_resources"]
  /\ res' = handle_list_resources(notes)
  /\ calls' = <<>>
  /\ notif' = 0
  /\ UNCHANGED <<notes, written, process, sessions>>

ListTools ==
  /\ req = NoRequest
  /\ req' = [op |-> "list_tools"]
  /\ res' = handle_list_tools
  /\ calls' = <<>>
  /\ notif' = 0
  /\ UNCHANGED <<notes, written, process, sessions>>

\* the result or the error goes back to the client; the request is over
Respond ==
  /\ req # NoRequest
  /\ req' = NoRequest
  /\ res' = Ok(<<>>)
  /\ calls' = <<>>
  /\ notif' = 0
  /\ UNCHANGED <<notes, written, process, sessions>>

Next == CallTool \/ ReadResource \/ ListResources \/ ListTools \/ Respond

Spec == Init /\ [][Next]_vars

----------------------------------------------------------------------------
(* The process state machine: the import, then the two restart loops, a     *)
(* server run seen only by how it ends.  The handlers are left out here:    *)
(* the note map they keep does not enter the restart loops.                 *)

ProcessInit ==
  /\ env \in Envs
  /\ pc = "start"
  /\ exit_status = Running
  /\ retry_count = 0
  /\ retry_delay = 0
  /\ outer_retry_count = 0
  /\ outer_retry_delay = 0
  /\ printed = <<>>
  /\ slept = <<>>
  /\ runs = 0
  /\ notes = [n \in {} |-> <<>>]
  /\ req = NoRequest
  /\ res = Ok(<<>>)
  /\ calls = <<>>
  /\ notif = 0
  /\ written = [n \in {} |-> <<>>]
  /\ NoSessions

\* what the import ends with: the exception that ends the process, or main ->
\* run_with_retries -> retry_runner and the first server run
Started(imported) ==
  IF imported.kind = "exc"
  THEN /\ pc' = "exit"
       /\ exit_status' = imported
       /\ UNCHANGED <<retry_count, retry_delay, outer_retry_count, outer_retry_delay, runs>>
  ELSE /\ pc' = "run"
       /\ outer_retry_count' = 0
       /\ outer_retry_delay' = initial_outer_retry_delay
       /\ retry_count' = 0
       /\ retry_delay' = initial_retry_delay
       /\ runs' = 1
       /\ UNCHANGED exit_status

Startup ==
  /\ pc = "start"
  /\ Started(Import(env))
  /\ UNCHANGED <<env, printed, slept, serving, sessions>>

\* run_stdio_server returns: break, anyio.run returns, break, return 0
RunReturns ==
  /\ pc = "run"
  /\ pc' = "exit"
  /\ exit_status' = Returned(0)
  /\ UNCHANGED <<env, retry_count, retry_delay, outer_retry_count, outer_retry_delay,
                 printed, slept, runs, serving, sessions>>

\* the except clause of run_with_retries, reached when retry_runner re-raises
OuterFailed(count) ==
  IF count >= outer_max_retries
  THEN /\ pc' = "exit"
       /\ exit_status' = Returned(1)
       /\ UNCHANGED slept
  ELSE /\ pc' = "outer_sleep"
       /\ slept' = Append(slept, outer_retry_delay)
       /\ UNCHANGED exit_status

\* an inner loop that allows one run more
InnerGivesUpLate(count) == ~(count < max_retries + 1)

\* retry_runner gives the attempt up after this many failed runs
InnerGivesUp(count) == ~(count < max_retries)

\* the except clause of retry_runner
InnerFailed(count) ==
  /\ retry_count' = count
  /\ IF ~InnerGivesUp(count)
     THEN /\ printed' = Append(printed, Progress(count))
          /\ pc' = "inner_sleep"
          /\ slept' = Append(slept, retry_delay)
          /\ UNCHANGED <<outer_retry_count, exit_status>>
     ELSE /\ printed' = Append(printed, MaxRetriesReached(count))
          /\ outer_retry_count' = outer_retry_count + 1
          /\ OuterFailed(outer_retry_count + 1)

\* run_stdio_server raises an Exception
RunRaises ==
  /\ pc = "run"
  /\ InnerFailed(retry_count + 1)
  /\ UNCHANGED <<env, retry_delay, outer_retry_delay, runs, serving, sessions>>

\* run_stdio_server ends with a BaseException that is no Exception
\* (KeyboardInterrupt, SystemExit): no except clause takes it
RunInterrupted ==
  /\ pc = "run"
  /\ pc' = "exit"
  /\ exit_status' = Raise("KeyboardInterrupt", <<>>)
  /\ UNCHANGED <<env, retry_count, retry_delay, outer_retry_count, outer_retry_delay,
                 printed, slept, runs, serving, sessions>>

\* asyncio.sleep(retry_delay) is over: the delay doubles, the loop runs the server again
InnerWake ==
  /\ pc = "inner_sleep"
  /\ retry_delay' = InnerBackoff(retry_delay)
  /\ pc' = "run"
  /\ runs' = runs + 1
  /\ UNCHANGED <<env, exit_status, retry_count, outer_retry_count, outer_retry_delay,
                 printed, slept, serving, sessions>>

\* time.sleep(outer_retry_delay) is over: the outer delay doubles up to the
\* cap, and anyio.run starts retry_runner afresh
OuterWake ==
  /\ pc = "outer_sleep"
  /\ outer_retry_delay' = OuterBackoff(outer_retry_delay)
  /\ retry_count' = 0
  /\ retry_delay' = initial_retry_delay
  /\ pc' = "run"
  /\ runs' = runs + 1
  /\ UNCHANGED <<env, exit_status, outer_retry_count, printed, slept, serving, sessions>>

ProcessNext ==
  Startup \/ RunReturns \/ RunRaises \/ RunInterrupted \/ InnerWake \/ OuterWake

ProcessSpec == ProcessInit /\ [][ProcessNext]_vars

\* every server run ends and every sleep is over after its delay
FairProcessSpec ==
  /\ ProcessSpec
  /\ WF_vars(Startup)
  /\ WF_vars(RunReturns \/ RunRaises \/ RunInterrupted)
  /\ WF_vars(InnerWake)
  /\ WF_vars(OuterWake)

----------------------------------------------------------------------------
(* The sessions' state machine: add-note invocations of several sessions,   *)
(* each run up to its await (the arguments checked, the note written), and  *)
(* resumed later, when the notification is sent, to return its text.        *)

\* the arguments the overlapping invocations carry
OverlapArguments ==
  {Dict2("name", PyStr(n), "content", PyStr(c)) : n \in NoteNames, c \in NoteContents}
  \cup {PyNone, Dict2("name", S("a"), "content", EmptyStr)}

\* the handler up to `await ...send_resource_list_changed()`: it raised, or it
\* wrote the note and is suspended
Suspended(s, arguments, e) ==
  IF e.out.kind = "exc"
  THEN /\ sessions' = [sessions EXCEPT ![s] = [pc |-> "raised", arguments |-> arguments, out |-> e.out]]
       /\ UNCHANGED <<notes, written>>
  ELSE /\ sessions' = [sessions EXCEPT ![s] = [pc |-> "awaiting", arguments |-> arguments]]
       /\ notes' = e.notes
       /\ written' = (arguments.d["name"].s :> arguments.d["content"].s) @@ written

AddNoteBegin ==
  \E s \in Sessions : \E arguments \in OverlapArguments :
    /\ sessions[s] = Idle
    /\ Suspended(s, arguments, handle_call_tool("add-note", arguments, notes, NoHttp))
    /\ UNCHANGED <<req, res, calls, notif, process>>

\* the notification is sent; the handler returns its text
AddNoteResume ==
  \E s \in Sessions :
    /\ sessions[s].pc = "awaiting"
    /\ sessions' = [sessions EXCEPT ![s] =
         [pc |-> "returned", arguments |-> sessions[s].arguments,
          out |-> handle_call_tool("add-note", sessions[s].arguments, notes, NoHttp).out]]
    /\ UNCHANGED <<serving, process>>

\* the result or the error goes back to the session's client
SessionRespond ==
  \E s \in Sessions :
    /\ sessions[s].pc \in {"returned", "raised"}
    /\ sessions' = [sessions EXCEPT ![s] = Idle]
    /\ UNCHANGED <<serving, process>>

SessionsNext == AddNoteBegin \/ AddNoteResume \/ SessionRespond

SessionsSpec == Init /\ [][SessionsNext]_vars

----------------------------------------------------------------------------
(* Observers of the last handler run, used by the properties below *)

IsCall(tool) == req.op = "call_tool" /\ req.name = tool
IsRead == req.op = "read_resource"

\* the value an invocation carries under key k, None when it carries none
ArgOf(arguments, k) == IF arguments.t = "dict" THEN Get(arguments, k, PyNone) ELSE PyNone
Present(v) == v.t = "str" /\ v.s # <<>>

CatalogTools == {"add-note", "search", "scrape-url", "knowledge-search"}
Required(tool) ==
  CASE tool = "add-note" -> {"name", "content"}
    [] tool = "search" -> {"engine", "query"}
    [] tool = "scrape-url" -> {"url"}
    [] tool = "knowledge-search" -> {"query"}
MissingRequired(tool, arguments) == \E k \in Required(tool) : ~Present(ArgOf(arguments, k))
MissingMessage(tool) ==
  CASE tool = "add-note" -> <<"Missing name or content">>
    [] tool = "search" -> <<"Missing engine or query">>
    [] tool = "scrape-url" -> <<"Missing URL">>
    [] tool = "knowledge-search" -> <<"Missing query parameter">>
NoArguments(arguments) == arguments.t # "dict" \/ DOMAIN arguments.d = {}

\* the answer the provider gave to the run's outbound call
Answer == calls[1].answer
TransportFailure(a) == a.kind = "exc" \/ a.status >= 400

----------------------------------------------------------------------------
(* C1 *)

\* C1: whenever the last accepted add-note for a name carried content c, a
\* read of note://internal/<name> returns exactly c.
C1_ReadReturnsLastAdded ==
  IsRead => \A n \in DOMAIN written : req.uri = NoteUri(n) => res = Ok(written[n])

----------------------------------------------------------------------------
(* C2 *)

\* C2 as stated: an invocation of a catalog tool with a required argument
\* missing makes no outbound call and leaves the note map alone; search,
\* scrape-url and add-note end with a ValueError carrying one of the "Missing"
\* messages, and knowledge-search returns the text "Missing query parameter".
C2_AsStated ==
  [][(req'.op = "call_tool" /\ req'.name \in CatalogTools
        /\ MissingRequired(req'.name, req'.arguments))
     => /\ calls' = <<>>
        /\ notes' = notes
        /\ IF req'.name = "knowledge-search"
           THEN res' = Ok(<<TextContent(<<"Missing query parameter">>)>>)
           ELSE res' \in {Raise("ValueError", <<"Missing arguments">>),
                          Raise("ValueError", MissingMessage(req'.name))}]_vars

\* C2 amended: such an invocation makes no outbound call and leaves the note
\* map alone; with arguments null or empty every tool, knowledge-search
\* included, ends with ValueError "Missing arguments"; otherwise search,
\* scrape-url and add-note end with the ValueError of the tool and
\* knowledge-search returns the text "Missing query parameter".
C2_RejectedBeforeEffects ==
  [][(req'.op = "call_tool" /\ req'.name \in CatalogTools
        /\ MissingRequired(req'.name, req'.arguments))
     => /\ calls' = <<>>
        /\ notes' = notes
        /\ res' = IF NoArguments(req'.arguments)
                  THEN Raise("ValueError", <<"Missing arguments">>)
                  ELSE IF req'.name = "knowledge-search"
                  THEN Ok(<<TextContent(<<"Missing query parameter">>)>>)
                  ELSE Raise("ValueError", MissingMessage(req'.name))]_vars

\* an add-note without content is rejected while the name already holds a note
C2_Witness ==
  /\ IsCall("add-note")
  /\ ArgOf(req.arguments, "name") = PyStr(<<"a">>)
  /\ ArgOf(req.arguments, "content") = EmptyStr
  /\ res = Raise("ValueError", <<"Missing name or content">>)
  /\ <<"a">> \in DOMAIN notes

----------------------------------------------------------------------------
(* C3 *)

\* C3: search, scrape-url and knowledge-search with their required arguments
\* present return a list of text blocks, whatever the provider call ended with.
C3_NeverRaises ==
  (req.op = "call_tool" /\ req.name \in {"search", "scrape-url", "knowledge-search"}
     /\ ~MissingRequired(req.name, req.arguments))
  => /\ res.kind = "ok"
     /\ \A i \in 1..Len(res.value) : res.value[i].type = "text"

----------------------------------------------------------------------------
(* C4 *)

ZeroMatchAnswer == JsonAnswer(Dict1("results", PyList(<<>>)))

\* C4: when the knowledge-base call times out, KnowledgeBase.search returns a
\* record with status=failed and a non-empty error, and what knowledge-search
\* returns differs from what it returns for a successful call with zero matches.
C4_TimeoutIsExplicitFailure ==
  (IsCall("knowledge-search") /\ calls # <<>> /\ Answer = HttpExc("Timeout"))
  => LET query == ArgOf(req.arguments, "query")
         r == KnowledgeBase_search(query, Answer).out
     IN /\ r.kind = "ok"
        /\ Get(r.value, "status", PyNone) = S("failed")
        /\ Present(Get(r.value, "error", PyNone))
        /\ r # KnowledgeBase_search(query, ZeroMatchAnswer).out
        /\ res # handle_call_tool(req.name, req.arguments, notes, ZeroMatchAnswer).out

----------------------------------------------------------------------------
(* C5 *)

\* the endpoint each adapter calls
AdapterEndpoint(engine) ==
  CASE engine = "tavily" -> "https://api.tavily.com/search"
    [] engine = "serper" -> "https://google.serper.dev/search"
    [] engine = "bing" -> "https://api.bing.microsoft.com/v7.0/search"
    [] engine = "google" -> "https://www.googleapis.com/customsearch/v1"
    [] engine = "linkup" -> "https://api.linkup.so/v1/search"
    [] engine = "exa" -> "https://api.exa.ai/search"

IsSearchOf(engines) ==
  /\ IsCall("search")
  /\ ~MissingRequired("search", req.arguments)
  /\ Head(ArgOf(req.arguments, "engine").s) \in engines

\* C5: a search for an engine outside the six supported names makes no
\* outbound call and yields an empty sequence without raising; a search for a
\* supported name calls the adapter of that name, once, and no other.
C5_DispatchByName ==
  /\ IsSearchOf(OtherEngines) => calls = <<>> /\ res = Ok(<<>>)
  /\ IsSearchOf(EngineNames) =>
       /\ Len(calls) = 1
       /\ calls[1].call.endpoint = AdapterEndpoint(Head(ArgOf(req.arguments, "engine").s))

C5_Witness ==
  /\ IsSearchOf({"duckduckgo"})
  /\ res = Ok(<<>>)
  /\ calls = <<>>

----------------------------------------------------------------------------
(* C6 *)

\* the label each adapter puts in file_name
AdapterLabel(engine) ==
  CASE engine = "tavily" -> "Tavily"
    [] engine = "serper" -> "Serper"
    [] engine = "bing" -> "Bing"
    [] engine = "google" -> "Google"
    [] engine = "linkup" -> "Linkup"
    [] engine = "exa" -> "Exa"

\* the value found where the engine's adapter looks for the item list, None
\* when the body has no such place
BodyItems(engine, json) ==
  LET inner == IF engine # "bing" THEN json
               ELSE IF json.t = "dict" /\ "webPages" \in DOMAIN json.d THEN json.d["webPages"]
               ELSE PyNone
      key == CASE engine \in {"tavily", "linkup", "exa"} -> "results"
               [] engine = "serper" -> "organic"
               [] engine = "google" -> "items"
               [] engine = "bing" -> "value"
  IN IF inner.t = "dict" /\ key \in DOMAIN inner.d THEN inner.d[key] ELSE PyNone

\* the provider answered 200 with a body whose item list holds JSON objects
ObjectItems(engine, a) ==
  /\ a.kind = "resp" /\ a.status < 400 /\ a.json.t # "invalid"
  /\ BodyItems(engine, a.json).t = "list"
  /\ \A i \in 1..Len(BodyItems(engine, a.json).l) : BodyItems(engine, a.json).l[i].t = "dict"

SearchedEngine == Head(ArgOf(req.arguments, "engine").s)
AnsweredItems == BodyItems(SearchedEngine, Answer.json).l

\* C6: for each supported engine and every upstream item, the record
\* SearchEngine.search returns has its text populated: the item's text, or the
\* empty string (not None) when the item has none; no item is dropped.
C6_DefaultsPopulated ==
  (IsSearchOf(EngineNames) /\ calls # <<>> /\ ObjectItems(SearchedEngine, Answer))
  => LET r == SearchEngine_search(ArgOf(req.arguments, "engine"),
                                  ArgOf(req.arguments, "query"), Answer).out
     IN /\ r.kind = "ok"
        /\ Len(r.value) = Len(AnsweredItems)
        /\ \A i \in 1..Len(AnsweredItems) :
             r.value[i].d["chunk_text"] =
               Get(AnsweredItems[i], TextKey(SearchedEngine), EmptyStr)

----------------------------------------------------------------------------
(* C7 *)

----------------------------------------------------------------------------
(* C8 *)

\* the results the adapter normalises from the backend's answer: none when the
\* call failed or the body holds no list under "results"
UsableResults(a) ==
  IF /\ a.kind = "resp" /\ a.status < 400 /\ a.json.t = "dict"
     /\ "results" \in DOMAIN a.json.d /\ a.json.d["results"].t = "list"
  THEN NormalizeAll(Take(a.json.d["results"].l, KbLimit))
  ELSE <<>>

\* the backend answered 200 with JSON that is not an object
NonObjectBody(a) == a.kind = "resp" /\ a.status < 400 /\ a.json.t \notin {"invalid", "dict"}

NoResultsBlock == TextContent(<<"No results found in knowledge base">>)

IsKnowledgeSearch == IsCall("knowledge-search") /\ ~MissingRequired("knowledge-search", req.arguments)

----------------------------------------------------------------------------
(* C9 *)

----------------------------------------------------------------------------
(* C10 *)

\* the URI is the one the listing gives to a note stored in nts
NamesStoredNote(uri, nts) == \E n \in DOMAIN nts : uri = NoteUri(n)

\* C10: a read whose URI scheme is not "note", or whose name (what follows
\* note://internal/) is not a key of the note map when the read is served, ends
\* with a ValueError and leaves the note map unchanged.
C10_BadReadIsCallerError ==
  [][(req'.op = "read_resource" /\ ~NamesStoredNote(req'.uri, notes))
     => /\ res'.kind = "exc"
        /\ res'.exc = "ValueError"
        /\ notes' = notes]_vars

\* what the reader does keep: the same with the name taken as the URI's path
\* without any of its leading slashes
StrippedNameUnknownIsCallerError ==
  [][(/\ req'.op = "read_resource"
      /\ \/ req'.uri.scheme # "note"
         \/ req'.uri.path.t = "none"
         \/ LStripSlash(req'.uri.path.s) \notin DOMAIN notes)
     => /\ res'.kind = "exc"
        /\ res'.exc = "ValueError"
        /\ notes' = notes]_vars

----------------------------------------------------------------------------
(* C11 *)

\* C11: an invocation with non-empty arguments whose tool name is not in the
\* catalog ends, in its one handler run, with ValueError 'Unknown tool: <name>',
\* having made no outbound call, sent no notification and changed no note.
C11_UnknownToolIsCallerError ==
  [][(req'.op = "call_tool" /\ req'.name \notin CatalogTools /\ Truthy(req'.arguments))
     => /\ res' = Raise("ValueError", <<"Unknown tool: ", req'.name>>)
        /\ calls' = <<>>
        /\ notif' = 0
        /\ notes' = notes]_vars

C11_Witness ==
  /\ IsCall("invalid_tool")
  /\ Truthy(req.arguments)
  /\ res = Raise("ValueError", <<"Unknown tool: ", "invalid_tool">>)
  /\ DOMAIN notes # {}

----------------------------------------------------------------------------
(* C12 *)

RecordFields == {"file_name", "chunk_text", "distance", "search_type", "relevance_score"}

\* the value holds only 'results', a list of records of exactly the five fields
OnlyCanonicalKeys(v) ==
  /\ v.t = "dict"
  /\ DOMAIN v.d = {"results"}
  /\ v.d["results"].t = "list"
  /\ \A i \in 1..Len(v.d["results"].l) :
       /\ v.d["results"].l[i].t = "dict"
       /\ DOMAIN v.d["results"].l[i].d = RecordFields

\* the backend's body carries a 'summary' key at top level or inside an item
CarriesSummary(a) ==
  /\ a.kind = "resp" /\ a.status < 400 /\ a.json.t = "dict"
  /\ \/ "summary" \in DOMAIN a.json.d
     \/ /\ "results" \in DOMAIN a.json.d
        /\ a.json.d["results"].t = "list"
        /\ \E i \in 1..Len(a.json.d["results"].l) :
             /\ a.json.d["results"].l[i].t = "dict"
             /\ "summary" \in DOMAIN a.json.d["results"].l[i].d

KbReturned == KnowledgeBase_search(ArgOf(req.arguments, "query"), Answer).out

\* C12: for every backend response, whatever KnowledgeBase.search returns to
\* its caller holds only 'results', and each record only file_name, chunk_text,
\* distance, search_type and relevance_score: no 'summary' key anywhere.
C12_NoSummaryReturned ==
  (IsKnowledgeSearch /\ KbReturned.kind = "ok") => OnlyCanonicalKeys(KbReturned.value)

C12_Witness ==
  /\ IsKnowledgeSearch
  /\ CarriesSummary(Answer)
  /\ "summary" \notin DOMAIN Answer.json.d
  /\ KbReturned.kind = "ok"
  /\ Len(KbReturned.value.d["results"].l) = 2

----------------------------------------------------------------------------
(* C13 *)

\* the six search-provider keys, the knowledge-base base URL, the scraping-API key
ProviderConfig ==
  {"TAVILY_API_KEY", "SERPER_API_KEY", "BING_API_KEY", "GOOGLE_API_KEY", "LINKUP_API_KEY",
   "EXA_API_KEY", "KNOWLEDGE_BASE_URL", "JINA_API_KEY"}

Configured(v) == env[v] \notin {Unset, ""}

\* the process ended in the import, before any server run, with an error that
\* names a variable of V that is not configured
FailedFastNaming(V) ==
  /\ pc = "exit"
  /\ exit_status.kind = "exc"
  /\ runs = 0
  /\ \E v \in V : ~Configured(v) /\ Contains(exit_status.msg, <<v>>)

\* C13: whenever one of the provider configuration values is unset, startup
\* fails fast with an error naming a missing variable, and no server run starts.
C13_FailFastOnMissing ==
  (pc # "start" /\ \E v \in ProviderConfig : ~Configured(v)) => FailedFastNaming(ProviderConfig)

\* what the import does keep: the same for the variables of required_env_vars
RequiredVarsFailFast ==
  (pc # "start" /\ \E i \in 1..Len(required_env_vars) : ~Configured(required_env_vars[i]))
  => FailedFastNaming({required_env_vars[i] : i \in 1..Len(required_env_vars)})

----------------------------------------------------------------------------
(* C14 *)

\* every failed run is answered with one printed notification
FailedRuns == Len(printed)

MaxRuns == max_retries * outer_max_retries

RestartsBounded ==
  /\ runs <= MaxRuns
  /\ outer_retry_count <= outer_max_retries
  /\ retry_count <= max_retries
  /\ pc \in {"run", "inner_sleep"} => outer_retry_count < outer_max_retries /\ retry_count < max_retries
  /\ exit_status = Returned(0) => pc = "exit" /\ runs = FailedRuns + 1
  /\ exit_status = Returned(1) <=> (pc = "exit" /\ FailedRuns = MaxRuns /\ runs = MaxRuns)

\* C14: with every server run ending, run_with_retries ends after at most 3
\* outer attempts of at most 3 server runs each (9 in all); it returns 0 at the
\* first server run that ends without an exception, and returns 1 exactly when
\* all 9 runs failed.
C14_BoundedRestarts == []RestartsBounded /\ <>(pc = "exit")

C14_Witness ==
  /\ pc = "exit"
  /\ exit_status = Returned(1)
  /\ runs = MaxRuns
  /\ outer_retry_count = outer_max_retries

----------------------------------------------------------------------------
(* C15 *)

NoneSuspended == \A s \in Sessions : sessions[s].pc # "awaiting"

\* the text an add-note invocation with these arguments confirms with
Confirmation(arguments) ==
  Ok(<<TextContent(<<"Added note '">> \o arguments.d["name"].s
                   \o <<"' with content: ">> \o arguments.d["content"].s)>>)

\* C15: when add-note invocations of several sessions interleave at their
\* await, then once none is suspended every name holds the content of the
\* write to it that executed last and no other name's note is lost, and every
\* invocation that returned confirms the name and content of its own arguments.
C15_LastWriteWins ==
  /\ NoneSuspended => notes = written
  /\ \A s \in Sessions :
       sessions[s].pc = "returned" => sessions[s].out = Confirmation(sessions[s].arguments)

\* session 2 wrote and returned while session 1, which wrote the same name
\* before, is still suspended
C15_Witness ==
  /\ sessions[1].pc = "awaiting"
  /\ sessions[2].pc = "returned"
  /\ sessions[1].arguments.d["name"] = sessions[2].arguments.d["name"]
  /\ sessions[1].arguments.d["content"] # sessions[2].arguments.d["content"]
  /\ notes[sessions[2].arguments.d["name"].s] = sessions[2].arguments.d["content"].s
  /\ Cardinality(DOMAIN notes) > 1

----------------------------------------------------------------------------
(* C16 *)

\* the listing holds exactly one resource per stored name
ListsEveryNote(listed, nts) ==
  /\ listed.kind = "ok"
  /\ Cardinality(listed.value) = Cardinality(DOMAIN nts)
  /\ \A n \in DOMAIN nts :
       [uri |-> [scheme |-> "note", host |-> "internal", path |-> PyStr(<<"/">> \o n)],
        name |-> <<"Note: ">> \o n,
        description |-> <<"A simple note named ">> \o n,
        mimeType |-> "text/plain"] \in listed.value

\* C16: no step removes a note name; every listing holds exactly one resource
\* per stored name (URI note://internal/<name>, name 'Note: <name>', mimeType
\* text/plain); and a read of the URI listed for a stored name succeeds.
C16_NeverDeletedListedReadable ==
  [][/\ DOMAIN notes \subseteq DOMAIN notes'
     /\ req'.op = "list_resources" => ListsEveryNote(res', notes')
     /\ (req'.op = "read_resource" /\ NamesStoredNote(req'.uri, notes')) => res'.kind = "ok"]_vars

\* what the handlers do keep: names are never removed and every one is listed
NeverDeletedAndListed ==
  [][/\ DOMAIN notes \subseteq DOMAIN notes'
     /\ req'.op = "list_resources" => ListsEveryNote(res', notes')]_vars

----------------------------------------------------------------------------
(* C17 *)

\* the handler run stored a note, or made its scrape or knowledge-base call
StoredOrCalled(tool) ==
  /\ IsCall(tool)
  /\ IF tool = "add-note" THEN AcceptedAdd(req.name, req.arguments) ELSE calls # <<>>

\* C17: every add-note run that stores a note, every scrape-url run whose call
\* completed and every knowledge-search run whose call completed sends one
\* notification to the session before its result goes back.
C17_NotifiesSession ==
  (\E tool \in {"add-note", "scrape-url", "knowledge-search"} : StoredOrCalled(tool))
  => notif = 1

\* what the handlers do keep: the same for add-note and scrape-url
AddAndScrapeNotify ==
  (\E tool \in {"add-note", "scrape-url"} : StoredOrCalled(tool)) => notif = 1

----------------------------------------------------------------------------
(* C18 *)

MaxRetriesPrinted ==
  \E i \in 1..Len(printed) : printed[i].method = "notifications/error"

\* C18: the 'Max retries reached' notification has been printed whenever the
\* process gives up with status 1, and no server run starts once it has been
\* printed.
C18_FinalNotificationLast ==
  [][/\ exit_status' = Returned(1) => MaxRetriesPrinted'
     /\ MaxRetriesPrinted => runs' = runs]_vars

\* what the loops do keep: giving up is announced, by the last thing printed
GivingUpIsAnnounced ==
  exit_status = Returned(1)
  => printed # <<>> /\ printed[Len(printed)] = MaxRetriesReached(max_retries)

----------------------------------------------------------------------------
(* C19 *)

\* run i is run number RunOfAttempt(i) of outer attempt AttemptOf(i)
AttemptOf(i) == ((i - 1) \div max_retries) + 1
RunOfAttempt(i) == ((i - 1) % max_retries) + 1

Capped(delay) == IF delay < outer_retry_delay_cap THEN delay ELSE outer_retry_delay_cap

\* the delay the claim puts after failed run i: inside an attempt the inner
\* delay, doubled from its initial value at every failure of the attempt; after
\* the last run of an attempt the outer delay, doubled at every failed attempt
DelayAfterRun(i) ==
  IF RunOfAttempt(i) < max_retries
  THEN initial_retry_delay * 2 ^ (RunOfAttempt(i) - 1)
  ELSE Capped(initial_outer_retry_delay * 2 ^ (AttemptOf(i) - 1))

\* C19: the delay after a failed run starts at 1 second in the inner loop and
\* at 5 seconds in the outer loop and doubles at each further failure (inner 1,
\* 2, from 1 again in every outer attempt; outer 5, 10, never above 60); a delay
\* is taken only between a failed run and the next run, none after the last.
C19_Backoff ==
  /\ \A i \in 1..Len(slept) : slept[i] = DelayAfterRun(i) /\ slept[i] <= outer_retry_delay_cap
  /\ pc \in {"inner_sleep", "outer_sleep"} => Len(slept) = runs /\ FailedRuns = runs
  /\ pc = "run" => Len(slept) = runs - 1
  /\ pc = "exit" /\ runs > 0 => Len(slept) = runs - 1

C19_Witness ==
  /\ pc = "exit"
  /\ exit_status = Returned(1)
  /\ slept = <<1, 2, 5, 1, 2, 10, 1, 2>>

----------------------------------------------------------------------------
(* C20 *)

\* nts2 is nts with the one key name set to content
WrittenAt(nts, nts2, name, content) ==
  /\ DOMAIN nts2 = DOMAIN nts \cup {name}
  /\ nts2[name] = content
  /\ \A n \in DOMAIN nts \ {name} : nts2[n] = nts[n]

\* C20: the note map changes only in an add-note run that carries a non-empty
\* name and a non-empty content, and then only at that name; every other
\* operation, and every run that ends in an error, leaves it as it was; so
\* every stored note has a non-empty name and a non-empty content.
C20_OnlyAddNoteWrites ==
  /\ [][/\ notes' # notes
           => /\ req'.op = "call_tool"
              /\ AcceptedAdd(req'.name, req'.arguments)
              /\ WrittenAt(notes, notes', req'.arguments.d["name"].s, req'.arguments.d["content"].s)
        /\ (req' # NoRequest /\ res'.kind = "exc") => notes' = notes]_vars
  /\ [](\A n \in DOMAIN notes : n # <<>> /\ notes[n] # <<>>)

\* an add-note run replaced the content of one of several notes
C20_Witness ==
  /\ IsCall("add-note")
  /\ AcceptedAdd(req.name, req.arguments)
  /\ Cardinality(DOMAIN notes) = 3
  /\ notes[req.arguments.d["name"].s] = req.arguments.d["content"].s
  /\ \E n \in DOMAIN notes : notes[n] # req.arguments.d["content"].s

====
